---- MODULE Spec2Model ----
(***************************************************************************)
(* Model of sale_stock_account_move (sale.py): the pending-invoice account *)
(* moves a sale creates, posts and reconciles for its shipped quantities.  *)
(*                                                                         *)
(* Records are identified by small integers; the absent record (python     *)
(* None) is 0.  Quantities and amounts are integers.                       *)
(***************************************************************************)
EXTENDS Integers, Sequences, FiniteSets, TLC

VARIABLES
    sales,           \* sale.sale: id -> [invoice_method, currency, lines]
    sale_lines,      \* sale.line: id -> [sale, product, quantity, unit_price, unit, moves]
    stock_moves,     \* stock.move: id -> [quantity, state, uom, invoice_lines]
    invoice_lines,   \* account.invoice.line: id -> [invoice, quantity, unit]
    invoices,        \* account.invoice: id -> state
    config,          \* sale.configuration(1): [pending_invoice_account]
    account_moves,   \* account.move: sequence of [origin, lines]; the id is the index
    call             \* what the handler that ran last computed and returned

vars == <<sales, sale_lines, stock_moves, invoice_lines, invoices, config,
          account_moves, call>>

(***************************************************************************)
(* Bounds.                                                                 *)
(***************************************************************************)
MaxAccountMoves == 3     \* account moves a behaviour may create
MaxQuantity == 2         \* largest quantity of a stock move or invoice line

(***************************************************************************)
(* Constants of the program and of its host.                               *)
(***************************************************************************)
None == 0
_ZERO == 0

NoAccount == "none"                  \* no pending invoice account configured
PendingAccount == "pending"          \* config.pending_invoice_account
RevenueAccount == "revenue"          \* product.account_revenue_used

Sales == {1, 2}
Lines == {1, 2, 3}
StockMoveIds == {1, 2, 3, 4}
InvoiceLineIds == {1, 2, 3, 4}
InvoiceIds == {1, 2, 3}

company_currency == "EUR"
Rate == [EUR |-> 1, USD |-> 2]       \* units of the currency for one EUR
Factor == [u |-> 1, du |-> 2]        \* units of measure: a "du" is two "u"

\* Currency.compute(from, amount, to) of the host: the amount expressed in
\* currency `to`.  The model only converts from the company currency, whose
\* rate is 1, so the division is exact.
Currency_compute(from, amount, to) ==
    IF from = to THEN amount ELSE (amount * Rate[to]) \div Rate[from]

\* Uom.compute_qty(from_uom, qty, to_uom) of the host: the quantity expressed
\* in unit `to_uom`.  The inputs are restricted (ExactQuantities) to those the
\* conversion maps to an integer.
Uom_compute_qty(from_uom, qty, to_uom) ==
    IF from_uom = to_uom THEN qty
    ELSE IF qty >= 0 THEN (qty * Factor[from_uom]) \div Factor[to_uom]
    ELSE -(((-qty) * Factor[from_uom]) \div Factor[to_uom])

RECURSIVE SumSeq(_)
SumSeq(s) == IF s = <<>> THEN 0 ELSE Head(s) + SumSeq(Tail(s))

RECURSIVE SumFun(_, _)
SumFun(f, D) ==
    IF D = {} THEN 0
    ELSE LET x == CHOOSE y \in D : TRUE IN f[x] + SumFun(f, D \ {x})

abs(x) == IF x < 0 THEN -x ELSE x

(***************************************************************************)
(* StockMove.posted_quantity                                               *)
(***************************************************************************)
RECURSIVE posted_quantity_loop(_, _, _)
posted_quantity_loop(ils, uom, invoice_quantity) ==
    IF ils = <<>> THEN invoice_quantity
    ELSE LET invoice_line == invoice_lines[Head(ils)]
         IN  IF /\ invoice_line.invoice # None
                /\ invoices[invoice_line.invoice] \in {"posted", "paid"}
             THEN LET iq == IF invoice_line.invoice \in DOMAIN invoice_quantity
                            THEN invoice_quantity
                            ELSE invoice_quantity @@ (invoice_line.invoice :> 0)
                      quantity == Uom_compute_qty(invoice_line.unit,
                                      invoice_line.quantity, uom)
                  IN  posted_quantity_loop(Tail(ils), uom,
                          [iq EXCEPT ![invoice_line.invoice] = @ + quantity])
             ELSE posted_quantity_loop(Tail(ils), uom, invoice_quantity)

\* The quantity from linked invoice lines in move unit and by invoice:
\* a function from invoice ids to quantities.
posted_quantity(m) ==
    posted_quantity_loop(stock_moves[m].invoice_lines, stock_moves[m].uom, <<>>)

(***************************************************************************)
(* SaleLine._get_unposted_shiped_quantity                                  *)
(***************************************************************************)
\* The loop over self.moves: [sended_quantity, invoice_quantity, uom], where
\* uom is the uom of the loop variable `move` when the loop ends.
RECURSIVE unposted_loop(_, _)
unposted_loop(moves, acc) ==
    IF moves = <<>> THEN acc
    ELSE LET move == stock_moves[Head(moves)]
             pq == posted_quantity(Head(moves))
             merged == [i \in DOMAIN acc.invoice_quantity \cup DOMAIN pq |->
                          (IF i \in DOMAIN acc.invoice_quantity
                           THEN acc.invoice_quantity[i] ELSE 0)
                          + (IF i \in DOMAIN pq THEN pq[i] ELSE 0)]
         IN  IF move.state # "done"
             THEN unposted_loop(Tail(moves), [acc EXCEPT !.uom = move.uom])
             ELSE unposted_loop(Tail(moves),
                      [sended_quantity |-> acc.sended_quantity + move.quantity,
                       invoice_quantity |-> merged,
                       uom |-> move.uom])

\* Faulty variant: the posted quantity is not capped by the line quantity.
unposted_shiped_quantity_uncapped(l) ==
    LET self == sale_lines[l]
        sign == IF self.quantity < 0 THEN -1 ELSE 1
        r == unposted_loop(self.moves,
                 [sended_quantity |-> 0, invoice_quantity |-> <<>>,
                  uom |-> self.unit])
        summed == SumFun(r.invoice_quantity, DOMAIN r.invoice_quantity)
    IN  sign * Uom_compute_qty(r.uom, r.sended_quantity - summed, self.unit)

_get_unposted_shiped_quantity(l) ==
    LET self == sale_lines[l]
        sign == IF self.quantity < 0 THEN -1 ELSE 1
        r == unposted_loop(self.moves,
                 [sended_quantity |-> 0, invoice_quantity |-> <<>>,
                  uom |-> self.unit])
        summed == SumFun(r.invoice_quantity, DOMAIN r.invoice_quantity)
        posted == IF summed > self.quantity THEN self.quantity ELSE summed
    IN  sign * Uom_compute_qty(r.uom, r.sended_quantity - posted, self.unit)

(***************************************************************************)
(* account.move.line records and MoveLine.search                           *)
(***************************************************************************)
\* The ids <<move, index>> of the move lines of the account moves `am`.
MoveLineIds(am) ==
    UNION {{<<k, j>> : j \in DOMAIN am[k].lines} : k \in DOMAIN am}

MoveLineOf(am, id) == am[id[1]].lines[id[2]]

SumDebit(am, ids) == SumFun([id \in ids |-> MoveLineOf(am, id).debit], ids)
SumCredit(am, ids) == SumFun([id \in ids |-> MoveLineOf(am, id).credit], ids)

\* MoveLine.search([('sale_line', '=', self), ('account', '=', pending),
\*                  ('reconciliation', '=', None)])
lines_to_reconcile(l, pending_invoice_account) ==
    {id \in MoveLineIds(account_moves) :
        /\ MoveLineOf(account_moves, id).sale_line = l
        /\ MoveLineOf(account_moves, id).account = pending_invoice_account
        /\ MoveLineOf(account_moves, id).reconciliation = None}

(***************************************************************************)
(* SaleLine._get_stock_account_move_lines                                  *)
(***************************************************************************)
\* "Sale Line not shipped": the first early return.
not_shipped(l) ==
    \/ sale_lines[l].product = "none"
    \/ sale_lines[l].product = "service"
    \/ sale_lines[l].moves = <<>>

amount_to_reconcile(l, pending_invoice_account) ==
    LET ltr == lines_to_reconcile(l, pending_invoice_account)
    IN  IF ltr # {}
        THEN SumDebit(account_moves, ltr) - SumCredit(account_moves, ltr)
        ELSE _ZERO

pending_amount(l, unposted_shiped_quantity) ==
    IF unposted_shiped_quantity # 0
    THEN Currency_compute(company_currency,
             unposted_shiped_quantity * sale_lines[l].unit_price,
             sales[sale_lines[l].sale].currency)
    ELSE _ZERO

invoiced_amount(A, unposted_shiped_quantity, P) ==
    IF A = _ZERO /\ unposted_shiped_quantity # 0
    THEN -P
    ELSE IF unposted_shiped_quantity = 0
    THEN (IF A > _ZERO THEN A ELSE -A)
    ELSE -(A + P)

to_reconcile_line(pending_invoice_account, A) ==
    IF A > _ZERO
    THEN [account |-> pending_invoice_account, debit |-> _ZERO, credit |-> A,
          sale_line |-> None, reconciliation |-> None]
    ELSE [account |-> pending_invoice_account, debit |-> abs(A), credit |-> _ZERO,
          sale_line |-> None, reconciliation |-> None]

invoiced_line(l, amount) ==
    IF amount > _ZERO
    THEN [account |-> RevenueAccount, debit |-> amount, credit |-> _ZERO,
          sale_line |-> l, reconciliation |-> None]
    ELSE [account |-> RevenueAccount, debit |-> _ZERO, credit |-> abs(amount),
          sale_line |-> l, reconciliation |-> None]

\* Faulty variant: the pending line is always a debit.
pending_line_debit(l, pending_invoice_account, P) ==
    [account |-> pending_invoice_account, debit |-> abs(P), credit |-> _ZERO,
     sale_line |-> l, reconciliation |-> None]

pending_line(l, pending_invoice_account, P) ==
    IF P > _ZERO
    THEN [account |-> pending_invoice_account, debit |-> P, credit |-> _ZERO,
          sale_line |-> l, reconciliation |-> None]
    ELSE [account |-> pending_invoice_account, debit |-> _ZERO, credit |-> abs(P),
          sale_line |-> l, reconciliation |-> None]

_get_stock_account_move_lines(l, pending_invoice_account) ==
    IF not_shipped(l) THEN <<>>
    ELSE
    LET unposted_shiped_quantity == _get_unposted_shiped_quantity(l)
        ltr == lines_to_reconcile(l, pending_invoice_account)
        A == amount_to_reconcile(l, pending_invoice_account)
        P == pending_amount(l, unposted_shiped_quantity)
        inv == invoiced_amount(A, unposted_shiped_quantity, P)
    IN  IF unposted_shiped_quantity = 0 /\ ltr = {} THEN <<>>
        ELSE IF P = A THEN <<>>
        ELSE (IF A # _ZERO
              THEN <<to_reconcile_line(pending_invoice_account, A)>> ELSE <<>>)
             \o (IF inv # _ZERO THEN <<invoiced_line(l, inv)>> ELSE <<>>)
             \o (IF P # _ZERO
                 THEN <<pending_line(l, pending_invoice_account, P)>> ELSE <<>>)

(***************************************************************************)
(* Sale._get_stock_account_move                                            *)
(***************************************************************************)
RECURSIVE move_lines_of(_, _)
move_lines_of(ls, pending_invoice_account) ==
    IF ls = <<>> THEN <<>>
    ELSE _get_stock_account_move_lines(Head(ls), pending_invoice_account)
         \o move_lines_of(Tail(ls), pending_invoice_account)

\* The lines of the account move for shipped quantities; <<>> stands for the
\* method returning no move.
_get_stock_account_move(s, pending_invoice_account) ==
    IF sales[s].invoice_method \in {"manual", "order"} THEN <<>>
    ELSE move_lines_of(sales[s].lines, pending_invoice_account)

(***************************************************************************)
(* Sale.create_stock_account_move                                          *)
(***************************************************************************)
\* What the last handler computed for one sale line.
NoResult ==
    [called |-> FALSE, shipped |-> FALSE, q |-> 0, A |-> 0, P |-> 0,
     lines |-> <<>>]

NoCall ==
    [op |-> "none", sale |-> None, error |-> "none",
     res |-> [l \in Lines |-> NoResult], move |-> None, reconciled |-> {}]

\* The values _get_stock_account_move_lines computes for line l, and the lines
\* it returns.
line_result(l, pending_invoice_account) ==
    IF not_shipped(l)
    THEN [NoResult EXCEPT !.called = TRUE]
    ELSE LET q == _get_unposted_shiped_quantity(l)
         IN  [called |-> TRUE, shipped |-> TRUE, q |-> q,
              A |-> amount_to_reconcile(l, pending_invoice_account),
              P |-> pending_amount(l, q),
              lines |-> _get_stock_account_move_lines(l, pending_invoice_account)]

sale_results(s, pending_invoice_account) ==
    [l \in Lines |->
        IF sale_lines[l].sale = s
        THEN line_result(l, pending_invoice_account) ELSE NoResult]

\* Faulty variant: only the manual invoice method is skipped.
not_shipment_method_manual(s) == sales[s].invoice_method = "manual"

\* if self.invoice_method != 'shipment': return
not_shipment_method(s) == sales[s].invoice_method # "shipment"

\* Faulty variant: the missing account is an error only when something was shipped.
no_pending_invoice_account_shipped(s) ==
    /\ config.pending_invoice_account = NoAccount
    /\ \E l \in Lines :
          /\ sale_lines[l].sale = s
          /\ \E k \in DOMAIN sale_lines[l].moves :
                stock_moves[sale_lines[l].moves[k]].state = "done"

\* if not config.pending_invoice_account: raise_user_error(...)
no_pending_invoice_account(s) == config.pending_invoice_account = NoAccount

\* Move.post of the host refuses a move whose debits and credits differ.
post_unbalanced_move(move_lines) ==
    SumSeq([j \in DOMAIN move_lines |-> move_lines[j].debit])
        # SumSeq([j \in DOMAIN move_lines |-> move_lines[j].credit])

\* Faulty variant: the search forgets the origin of the move.
to_reconcile_any_origin(am, s, pending_invoice_account, account_move) ==
    {id \in MoveLineIds(am) :
        /\ MoveLineOf(am, id).account = pending_invoice_account
        /\ MoveLineOf(am, id).reconciliation = None
        /\ \/ id[1] # account_move
           \/ MoveLineOf(am, id).sale_line = None}

\* MoveLine.search([('move.origin', '=', str(self)), ('account', '=', pending),
\*     ('reconciliation', '=', None),
\*     ['OR', ('move', '!=', account_move), ('sale_line', '=', None)]])
\* on the account moves `am`, which hold the new move `account_move`.
to_reconcile(am, s, pending_invoice_account, account_move) ==
    {id \in MoveLineIds(am) :
        /\ am[id[1]].origin = s
        /\ MoveLineOf(am, id).account = pending_invoice_account
        /\ MoveLineOf(am, id).reconciliation = None
        /\ \/ id[1] # account_move
           \/ MoveLineOf(am, id).sale_line = None}

\* MoveLine.reconcile(lines) of the host: the lines get reconciliation r.
reconcile(am, ids, r) ==
    [k \in DOMAIN am |->
        [am[k] EXCEPT !.lines =
            [j \in DOMAIN am[k].lines |->
                IF <<k, j>> \in ids
                THEN [am[k].lines[j] EXCEPT !.reconciliation = r]
                ELSE am[k].lines[j]]]]

Returned(s, error, res, move, reconciled) ==
    [op |-> "create", sale |-> s, error |-> error, res |-> res,
     move |-> move, reconciled |-> reconciled]

create_stock_account_move(s) ==
    LET pending == config.pending_invoice_account
        res == sale_results(s, pending)
        move_lines == _get_stock_account_move(s, pending)
        account_move == Len(account_moves) + 1
        saved == Append(account_moves, [origin |-> s, lines |-> move_lines])
        sel == to_reconcile(saved, s, pending, account_move)
        credit == SumCredit(saved, sel)
        debit == SumDebit(saved, sel)
    IN  /\ UNCHANGED <<sales, sale_lines, stock_moves, invoice_lines, invoices,
                       config>>
        /\ IF not_shipment_method(s)
           THEN /\ call' = Returned(s, "none", NoCall.res, None, {})
                /\ UNCHANGED account_moves
           ELSE IF no_pending_invoice_account(s)
           THEN /\ call' = Returned(s, "no_pending_invoice_account", NoCall.res,
                               None, {})
                /\ UNCHANGED account_moves
           ELSE IF move_lines = <<>>
           THEN /\ call' = Returned(s, "none", res, None, {})
                /\ UNCHANGED account_moves
           ELSE IF post_unbalanced_move(move_lines)
           THEN \* the error rolls the transaction back
                /\ call' = Returned(s, "post_unbalanced_move", res, None, {})
                /\ UNCHANGED account_moves
           ELSE /\ Len(account_moves) < MaxAccountMoves
                /\ IF sel # {} /\ credit = debit
                   THEN /\ account_moves' = reconcile(saved, sel, account_move)
                        /\ call' = Returned(s, "none", res, account_move, sel)
                   ELSE /\ account_moves' = saved
                        /\ call' = Returned(s, "none", res, account_move, {})

\* Sale.process(sales) for one sale; the host's process comes first and does
\* not touch the account moves.
process(s) == create_stock_account_move(s)

(***************************************************************************)
(* The host: shipments, invoices, configuration                            *)
(***************************************************************************)
do_stock_move(m) ==
    /\ stock_moves[m].state = "draft"
    /\ stock_moves' = [stock_moves EXCEPT ![m].state = "done"]
    /\ call' = NoCall
    /\ UNCHANGED <<sales, sale_lines, invoice_lines, invoices, config,
                   account_moves>>

post_invoice(i) ==
    /\ invoices[i] = "draft"
    /\ invoices' = [invoices EXCEPT ![i] = "posted"]
    /\ call' = NoCall
    /\ UNCHANGED <<sales, sale_lines, stock_moves, invoice_lines, config,
                   account_moves>>

set_pending_invoice_account(a) ==
    /\ config.pending_invoice_account # a
    /\ config' = [config EXCEPT !.pending_invoice_account = a]
    /\ call' = NoCall
    /\ UNCHANGED <<sales, sale_lines, stock_moves, invoice_lines, invoices,
                   account_moves>>

(***************************************************************************)
(* Spec: two sales, shipped, invoiced and processed in any order           *)
(***************************************************************************)
Init ==
    /\ \E im \in {"shipment", "order", "manual"} :
          sales = [s \in Sales |->
                     IF s = 1
                     THEN [invoice_method |-> im, currency |-> "EUR",
                           lines |-> <<1, 2>>]
                     ELSE [invoice_method |-> "shipment", currency |-> "USD",
                           lines |-> <<3>>]]
    /\ \E product \in {"goods", "service"},
          qp \in {<<1, 1>>, <<1, -1>>, <<-1, 1>>} :
          /\ product = "service" => qp = <<1, 1>>
          /\ sale_lines = [l \in Lines |->
                     IF l = 1
                     THEN [sale |-> 1, product |-> "goods", quantity |-> 2,
                           unit_price |-> 1, unit |-> "u", moves |-> <<1, 2>>]
                     ELSE IF l = 2
                     THEN [sale |-> 1, product |-> "goods", quantity |-> 1,
                           unit_price |-> 2, unit |-> "u", moves |-> <<3>>]
                     ELSE [sale |-> 2, product |-> product, quantity |-> qp[1],
                           unit_price |-> qp[2], unit |-> "u",
                           moves |-> IF product = "goods" THEN <<4>> ELSE <<>>]]
    /\ stock_moves = [m \in StockMoveIds |->
                        [quantity |-> 1, state |-> "draft", uom |-> "u",
                         invoice_lines |-> <<m>>]]
    /\ invoice_lines = [i \in InvoiceLineIds |->
                        [invoice |-> IF i = 1 THEN 1 ELSE IF i = 4 THEN 3 ELSE 2,
                         quantity |-> 1, unit |-> "u"]]
    /\ invoices = [i \in InvoiceIds |-> "draft"]
    /\ config = [pending_invoice_account |-> NoAccount]
    /\ account_moves = <<>>
    /\ call = NoCall

Next ==
    \/ \E s \in Sales : process(s)
    \/ \E m \in StockMoveIds : do_stock_move(m)
    \/ \E i \in InvoiceIds : post_invoice(i)
    \/ \E a \in {NoAccount, PendingAccount} : set_pending_invoice_account(a)

Spec == Init /\ [][Next]_vars

(***************************************************************************)
(* SpecQuantity: _get_unposted_shiped_quantity on the moves and invoice    *)
(* lines of sale line 1, drawn from bounded sets                           *)
(***************************************************************************)
unposted_shiped_quantity(l) ==
    /\ sale_lines[l].moves # <<>>
    /\ call' = [NoCall EXCEPT
                  !.op = "quantity",
                  !.sale = sale_lines[l].sale,
                  !.res[l] = [NoResult EXCEPT
                                !.called = TRUE,
                                !.shipped = TRUE,
                                !.q = _get_unposted_shiped_quantity(l)]]
    /\ UNCHANGED <<sales, sale_lines, stock_moves, invoice_lines, invoices,
                   config, account_moves>>

\* Every invoice line quantity converts to a whole quantity of the unit of
\* each move it is linked to.
ExactQuantities ==
    \A m \in StockMoveIds :
        \A k \in DOMAIN stock_moves[m].invoice_lines :
            LET il == invoice_lines[stock_moves[m].invoice_lines[k]]
            IN  (il.quantity * Factor[il.unit]) % Factor[stock_moves[m].uom] = 0

InitQuantity ==
    /\ sales = [s \in Sales |->
                  [invoice_method |-> "shipment", currency |-> "EUR",
                   lines |-> IF s = 1 THEN <<1, 2>> ELSE <<3>>]]
    /\ \E quantity \in {-MaxQuantity, 1, MaxQuantity + 1} :
          sale_lines = [l \in Lines |->
                  [sale |-> IF l = 3 THEN 2 ELSE 1, product |-> "goods",
                   quantity |-> IF l = 1 THEN quantity ELSE 1,
                   unit_price |-> 1, unit |-> "u",
                   moves |-> IF l = 1 THEN <<1, 2>> ELSE <<>>]]
    /\ \E q1 \in 1..MaxQuantity,
          st1 \in {"draft", "done", "cancel"}, st2 \in {"draft", "done"},
          u1 \in {"u", "du"}, u2 \in {"u", "du"},
          links \in {<< <<1>>, <<2>> >>, << <<1>>, <<1, 2>> >>} :
          stock_moves = [m \in StockMoveIds |->
                  IF m = 1
                  THEN [quantity |-> q1, state |-> st1, uom |-> u1,
                        invoice_lines |-> links[1]]
                  ELSE IF m = 2
                  THEN [quantity |-> 1, state |-> st2, uom |-> u2,
                        invoice_lines |-> links[2]]
                  ELSE [quantity |-> 1, state |-> "draft", uom |-> "u",
                        invoice_lines |-> <<>>]]
    /\ \E i1 \in {None, 1}, i2 \in {1, 2}, q1 \in 1..MaxQuantity,
          u1 \in {"u", "du"}, u2 \in {"u", "du"} :
          invoice_lines = [i \in InvoiceLineIds |->
                  IF i = 1
                  THEN [invoice |-> i1, quantity |-> q1, unit |-> u1]
                  ELSE IF i = 2
                  THEN [invoice |-> i2, quantity |-> 1, unit |-> u2]
                  ELSE [invoice |-> None, quantity |-> 1, unit |-> "u"]]
    /\ \E s1 \in {"draft", "posted", "paid"}, s2 \in {"posted", "cancel"} :
          invoices = [i \in InvoiceIds |->
                  IF i = 1 THEN s1 ELSE IF i = 2 THEN s2 ELSE "draft"]
    /\ ExactQuantities
    /\ config = [pending_invoice_account |-> PendingAccount]
    /\ account_moves = <<>>
    /\ call = NoCall

NextQuantity == \E l \in Lines : unposted_shiped_quantity(l)

SpecQuantity == InitQuantity /\ [][NextQuantity]_vars

(***************************************************************************)
(* Properties                                                              *)
(***************************************************************************)
LinesOf(s) == {l \in Lines : sale_lines[l].sale = s}

DebitOf(move_lines) ==
    SumSeq([j \in DOMAIN move_lines |-> move_lines[j].debit])
CreditOf(move_lines) ==
    SumSeq([j \in DOMAIN move_lines |-> move_lines[j].credit])

\* The lines of `move_lines` on the pending invoice account tagged with line l.
PendingTagged(move_lines, l) ==
    {j \in DOMAIN move_lines :
        /\ move_lines[j].account = config.pending_invoice_account
        /\ move_lines[j].sale_line = l}

\* C1: the move lines _get_stock_account_move_lines returns for a sale line
\* are balanced (sum of debits = sum of credits), whatever the previous
\* pending balance A and the unposted shipped quantity q are.
C1_Balanced ==
    call.op = "create" =>
        \A l \in Lines :
            call.res[l].called =>
                DebitOf(call.res[l].lines) = CreditOf(call.res[l].lines)

\* C2: the pending amount is P = q * unit_price in the sale's currency (0
\* when q = 0); a non-empty result holds a line on the pending invoice
\* account tagged with the sale line iff P # 0, exactly one, with debit P when
\* P > 0 and credit |P| when P < 0.
C2_PendingLine ==
    call.op = "create" =>
        \A l \in Lines :
            call.res[l].shipped =>
                LET r == call.res[l]
                    tagged == PendingTagged(r.lines, l)
                IN  /\ r.P = r.q * sale_lines[l].unit_price
                                 * Rate[sales[sale_lines[l].sale].currency]
                    /\ r.q = 0 => r.P = 0
                    /\ r.lines # <<>> =>
                        /\ r.P # 0 <=> tagged # {}
                        /\ Cardinality(tagged) <= 1
                        /\ \A j \in tagged :
                            /\ r.P > 0 => /\ r.lines[j].debit = r.P
                                          /\ r.lines[j].credit = 0
                            /\ r.P < 0 => /\ r.lines[j].credit = -r.P
                                          /\ r.lines[j].debit = 0

\* A call on a sale with two shipped lines: line 1 is invoiced in full (P = 0,
\* no tagged pending line) and line 2 is pending (P > 0, one debit line).
C2_Witness ==
    /\ call.op = "create"
    /\ call.res[1].shipped /\ call.res[1].lines # <<>> /\ call.res[1].P = 0
    /\ call.res[2].shipped /\ call.res[2].lines # <<>> /\ call.res[2].P > 0
    /\ PendingTagged(call.res[1].lines, 1) = {}
    /\ Cardinality(PendingTagged(call.res[2].lines, 2)) = 1

\* The done moves of line l, and the links <<move, k>> from a done move to
\* its k-th invoice line when that line's invoice is posted or paid.
DoneMoves(l) ==
    {k \in DOMAIN sale_lines[l].moves :
        stock_moves[sale_lines[l].moves[k]].state = "done"}

PostedLinks(l) ==
    {mk \in StockMoveIds \X InvoiceLineIds :
        /\ \E k \in DoneMoves(l) : sale_lines[l].moves[k] = mk[1]
        /\ mk[2] \in DOMAIN stock_moves[mk[1]].invoice_lines
        /\ LET il == invoice_lines[stock_moves[mk[1]].invoice_lines[mk[2]]]
           IN  /\ il.invoice # None
               /\ invoices[il.invoice] \in {"posted", "paid"}}

LinkedLine(mk) == invoice_lines[stock_moves[mk[1]].invoice_lines[mk[2]]]

Shipped(l) ==
    SumFun([k \in DoneMoves(l) |-> stock_moves[sale_lines[l].moves[k]].quantity],
           DoneMoves(l))

Min(a, b) == IF a < b THEN a ELSE b
Sign(l) == IF sale_lines[l].quantity < 0 THEN -1 ELSE 1
LastMove(l) == sale_lines[l].moves[Len(sale_lines[l].moves)]

\* C3 as claimed: the result is sign * (S - min(I, line quantity)), S the sum
\* of the quantities of the done moves and I the sum of the quantities of the
\* invoice lines linked to done moves whose invoice is posted or paid.
C3_RawQuantities ==
    call.op = "quantity" =>
        \A l \in Lines :
            call.res[l].called =>
                LET I == SumFun([mk \in PostedLinks(l) |-> LinkedLine(mk).quantity],
                                PostedLinks(l))
                IN  call.res[l].q
                      = Sign(l) * (Shipped(l) - Min(I, sale_lines[l].quantity))

\* C3 (amended): the same, with each invoice line quantity converted from
\* the invoice line's unit to the uom of the move it is linked to, and the
\* difference converted from the uom of the line's last move to the line's
\* unit.
C3_ConvertedQuantities ==
    call.op = "quantity" =>
        \A l \in Lines :
            call.res[l].called =>
                LET I == SumFun([mk \in PostedLinks(l) |->
                                   Uom_compute_qty(LinkedLine(mk).unit,
                                       LinkedLine(mk).quantity,
                                       stock_moves[mk[1]].uom)],
                                PostedLinks(l))
                IN  call.res[l].q
                      = Sign(l) * Uom_compute_qty(stock_moves[LastMove(l)].uom,
                                      Shipped(l) - Min(I, sale_lines[l].quantity),
                                      sale_lines[l].unit)

\* Line 1 has a done move and a move that is not done; an invoice line in
\* another unit than its move is posted and counted, one without invoice is
\* not; the posted quantity exceeds neither the line quantity nor the shipped.
C3_Witness ==
    /\ call.op = "quantity"
    /\ call.res[1].called
    /\ call.res[1].q > 0
    /\ stock_moves[1].state = "done" /\ stock_moves[2].state # "done"
    /\ stock_moves[1].invoice_lines = <<1>>
    /\ invoice_lines[1].invoice = 1 /\ invoices[1] = "paid"
    /\ invoice_lines[1].unit # stock_moves[1].uom

\* C4: create_stock_account_move on a sale whose invoice method is not
\* 'shipment' creates no account move, reconciles nothing and raises no error.
C4_OnlyShipment ==
    [][(call'.op = "create" /\ sales[call'.sale].invoice_method # "shipment")
        => /\ account_moves' = account_moves
           /\ call'.error = "none"
           /\ call'.move = None
           /\ call'.reconciled = {}]_vars

\* A sale invoiced on order was processed with a shipment done, an invoice
\* posted and no pending invoice account configured.
C4_Witness ==
    /\ call.op = "create"
    /\ sales[call.sale].invoice_method = "order"
    /\ config.pending_invoice_account = NoAccount
    /\ \E l \in LinesOf(call.sale) : DoneMoves(l) # {} /\ PostedLinks(l) # {}
    /\ account_moves # <<>>

\* C5: on a sale invoiced on shipment, without a pending invoice account,
\* create_stock_account_move fails with 'no_pending_invoice_account' and the
\* account moves and their reconciliations stay as they were.
C5_NoPendingAccount ==
    [][(/\ call'.op = "create"
        /\ sales[call'.sale].invoice_method = "shipment"
        /\ config.pending_invoice_account = NoAccount)
        => /\ call'.error = "no_pending_invoice_account"
           /\ account_moves' = account_moves
           /\ call'.move = None
           /\ call'.reconciled = {}]_vars

\* The error was raised on a sale with nothing shipped, while account moves
\* of an earlier call exist.
C5_Witness ==
    /\ call.op = "create"
    /\ call.error = "no_pending_invoice_account"
    /\ \A l \in LinesOf(call.sale) : DoneMoves(l) = {}
    /\ account_moves # <<>>

\* The lines create_stock_account_move is to reconcile after posting move M
\* of sale s, read from the account moves before (am) and after (am2) it.
Selected(am, am2, s, M) ==
    {id \in MoveLineIds(am2) :
        /\ am2[id[1]].origin = s
        /\ MoveLineOf(am2, id).account = config.pending_invoice_account
        /\ IF id[1] = M
           THEN MoveLineOf(am2, id).sale_line = None
           ELSE MoveLineOf(am, id).reconciliation = None}

ReconciledAsSelected(am, am2, c) ==
    LET M == c.move
        sel == Selected(am, am2, c.sale, M)
        ok == sel # {} /\ SumCredit(am2, sel) = SumDebit(am2, sel)
    IN  /\ M = Len(am) + 1 /\ Len(am2) = M
        /\ c.reconciled = IF ok THEN sel ELSE {}
        /\ \A id \in MoveLineIds(am2) :
              IF ok /\ id \in sel
              THEN MoveLineOf(am2, id).reconciliation # None
              ELSE MoveLineOf(am2, id).reconciliation
                     = IF id[1] = M THEN None
                       ELSE MoveLineOf(am, id).reconciliation
        /\ \A j \in DOMAIN am2[M].lines :
              (/\ am2[M].lines[j].account = config.pending_invoice_account
               /\ am2[M].lines[j].sale_line # None)
              => am2[M].lines[j].reconciliation = None

\* C6: after posting a new move M, the call reconciles exactly the
\* unreconciled pending-account lines of moves of this sale that are of
\* another move than M or are lines of M without sale line, and only when
\* that set is non-empty with equal credit and debit; otherwise no
\* reconciliation changes; M's pending line with a sale line stays
\* unreconciled.
C6_Reconciles ==
    [][(call'.op = "create" /\ call'.move # None)
        => ReconciledAsSelected(account_moves, account_moves', call')]_vars

\* The call reconciled the previous pending line of one sale line with its
\* reversal, left the new pending line of another sale line unreconciled, and
\* left alone an unreconciled pending line of the other sale.
C6_Witness ==
    /\ call.op = "create"
    /\ call.reconciled # {}
    /\ \E j \in DOMAIN account_moves[call.move].lines :
          /\ account_moves[call.move].lines[j].account = PendingAccount
          /\ account_moves[call.move].lines[j].sale_line # None
          /\ account_moves[call.move].lines[j].reconciliation = None
    /\ \E id \in MoveLineIds(account_moves) :
          /\ account_moves[id[1]].origin # call.sale
          /\ MoveLineOf(account_moves, id).account = PendingAccount
          /\ MoveLineOf(account_moves, id).reconciliation = None

\* Debit minus credit of the unreconciled pending-account lines of the moves
\* of sale s.
NetPending(s) ==
    LET ids == {id \in MoveLineIds(account_moves) :
                  /\ account_moves[id[1]].origin = s
                  /\ MoveLineOf(account_moves, id).account = PendingAccount
                  /\ MoveLineOf(account_moves, id).reconciliation = None}
    IN  SumDebit(account_moves, ids) - SumCredit(account_moves, ids)

CurrentPending(l) ==
    IF not_shipped(l) THEN 0
    ELSE _get_unposted_shiped_quantity(l) * sale_lines[l].unit_price
            * Rate[sales[sale_lines[l].sale].currency]

\* C7: right after a create_stock_account_move that raised no error on a
\* sale invoiced on shipment, the net balance of the sale's unreconciled
\* pending-account lines is the sum of the pending amounts of its lines.
C7_NetBalance ==
    (/\ call.op = "create"
     /\ call.error = "none"
     /\ sales[call.sale].invoice_method = "shipment")
    => NetPending(call.sale)
         = SumFun([l \in LinesOf(call.sale) |-> CurrentPending(l)],
                  LinesOf(call.sale))

====
